---- MODULE Spec2Model ----
(***************************************************************************)
(* PokemonService (src/src/services/pokemon.service.ts) over its store.    *)
(*                                                                         *)
(* The store holds three tables: Type (read only), Pokemon and PokemonType.*)
(* Every `await prisma.x.y(...)` of the service is one atomic statement of *)
(* the store and one step of the calling process; other callers may run    *)
(* between two statements.  Statements issued through `tx` inside          *)
(* prisma.$transaction write to the transaction's private overlay, which   *)
(* is applied to the committed tables by the commit step and dropped when  *)
(* a statement of the transaction throws (read-committed isolation: every  *)
(* statement reads the committed tables plus the transaction's own writes).*)
(***************************************************************************)
EXTENDS Integers, Sequences, FiniteSets, Bags, TLC

\* ---------------------------------------------------------------- bounds
\* Pagination metadata is computed for pages 1..MaxPage, page sizes
\* 0..MaxLimit and totals 0..MaxTotal.
\* NumProcs callers; MaxId ids drawn from the autoincrement counter; NumTypes
\* rows in the Type table; at most MaxOverlaps calls begin while another
\* call is in flight.
NumProcs == 2
MaxId == 2
NumTypes == 3
MaxOverlaps == 1
MaxPage == 4
MaxLimit == 10
MaxTotal == 25

Procs == 1..NumProcs
Ids == 1..MaxId
Types == 1..NumTypes

Names == {"Bulbasaur", "Pikachu"}
HeightVals == {0}

\* Label references as they reach the service: decimal digit strings.
\* <<>> stands for a reference that is undefined (or empty): both are falsy.
NoRef == <<>>
TypeRefs == {<<1>>, <<2>>, <<1, 0>>}

\* inputs of the calls that run concurrently
ConcNames == {"Pikachu"}
ConcRefs == {<<1>>, <<2>>}

\* Optional scalars: <<>> is null / undefined, <<v>> is the value v.
None == <<>>
Some(v) == <<v>>

\* ------------------------------------------------------ pure functions
RECURSIVE parseInt(_)
parseInt(s) ==
    IF Len(s) = 1 THEN s[1]
    ELSE parseInt(SubSeq(s, 1, Len(s) - 1)) * 10 + s[Len(s)]

\* `x || null` on an optional number: undefined and 0 are falsy
OrNull(h) == IF h = None \/ h[1] = 0 THEN None ELSE h

NoRow == [absent |-> TRUE]
Untouched == [untouched |-> TRUE]
\* A Pokemon row.  `height` stands for every scalar column other than
\* `name`: create and update copy each of them in the same way.
Row(n, h) == [name |-> n, height |-> h]

NoTx == [wP |-> [i \in Ids |-> Untouched], delT |-> {}, insT |-> EmptyBag]

VARIABLES
    pokemon,      \* committed Pokemon table: id -> row or NoRow
    pokemonType,  \* committed PokemonType table: bag of <<pokemonId, typeId>>
    nextId,       \* autoincrement counter of Pokemon.id
    pc,           \* position of each caller in its call
    call,         \* the call each caller is executing and its arguments
    result,       \* outcome of the call once it has returned or thrown
    tx,           \* uncommitted writes of each caller's open transaction
    newId,        \* newPokemon.id of a create call
    pre,          \* committed tables as they were when the latest call began
    overlaps,     \* number of calls begun while another call was in flight
    found         \* what a findMany call has read and what it returns

vars == <<pokemon, pokemonType, nextId, pc, call, result, tx, newId, pre, overlaps, found>>

NoCall == [op |-> "none"]
NoFound == [nothing |-> TRUE]
Snapshot == [pokemon |-> pokemon, pokemonType |-> pokemonType]

\* ------------------------------------------------------ store: reads
Exists(id) == id \in Ids /\ pokemon[id] # NoRow
TypeExists(t) == t \in Types
IdsByName(n) == {i \in Ids : pokemon[i] # NoRow /\ pokemon[i].name = n}
PairsOf(tbl, id) == {pr \in BagToSet(tbl) : pr[1] = id}
RECURSIVE SumCopies(_, _)
SumCopies(tbl, S) ==
    IF S = {} THEN 0
    ELSE LET pr == CHOOSE x \in S : TRUE
         IN CopiesIn(pr, tbl) + SumCopies(tbl, S \ {pr})
\* prisma.pokemonType.count({ where: { pokemonId } })
CountTypes(id) == SumCopies(pokemonType, PairsOf(pokemonType, id))

\* what a statement of p's open transaction reads
ViewP(p, id) == IF tx[p].wP[id] # Untouched THEN tx[p].wP[id] ELSE pokemon[id]
ViewCopies(p, pr) ==
    (IF pr \in tx[p].delT THEN 0 ELSE CopiesIn(pr, pokemonType))
        + CopiesIn(pr, tx[p].insT)

\* ------------------------------------------------------ store: locks
\* A write waits while another open transaction holds an uncommitted write
\* on the same row or the same unique key.
NameLocked(p, n) ==
    \E q \in Procs \ {p} : \E i \in Ids :
        /\ tx[q].wP[i] # Untouched
        /\ \/ (tx[q].wP[i] # NoRow /\ tx[q].wP[i].name = n)
           \/ (pokemon[i] # NoRow /\ pokemon[i].name = n)
RowLocked(p, id) == \E q \in Procs \ {p} : tx[q].wP[id] # Untouched
PairLocked(p, pr) ==
    \E q \in Procs \ {p} : pr \in tx[q].delT \/ CopiesIn(pr, tx[q].insT) > 0

\* ------------------------------------------------------ store: constraints
\* @unique on Pokemon.name
NameTaken(p, n, self) ==
    \E i \in Ids \ {self} : ViewP(p, i) # NoRow /\ ViewP(p, i).name = n
\* variant: the pair is not unique
PairTakenNever(p, pr) == FALSE
\* unique (pokemonId, typeId)
PairTaken(p, pr) == ViewCopies(p, pr) > 0

\* ------------------------------------------------------ commit
Committed(p) ==
    /\ pokemon' = [i \in Ids |-> ViewP(p, i)]
    /\ pokemonType' =
         LET kept == [pr \in {x \in BagToSet(pokemonType) : x \notin tx[p].delT}
                        |-> pokemonType[pr]]
         IN kept (+) tx[p].insT
    /\ tx' = [tx EXCEPT ![p] = NoTx]

\* variant: a throw keeps the writes made so far
RollbackKeepsWrites(p) == Committed(p)
\* a throw inside the callback of $transaction rolls the transaction back;
\* outside a transaction there is nothing to undo
Rollback(p) ==
    /\ tx' = [tx EXCEPT ![p] = NoTx]
    /\ UNCHANGED <<pokemon, pokemonType>>

Throw(p, kind) ==
    /\ pc' = [pc EXCEPT ![p] = "done"]
    /\ result' = [result EXCEPT ![p] = kind]
    /\ Rollback(p)

\* a statement that writes nothing
NoWrite == UNCHANGED <<pokemon, pokemonType, tx>>

Goto(p, l) == pc' = [pc EXCEPT ![p] = l] /\ UNCHANGED result

\* ------------------------------------------------------ store: writes
\* The FOREIGN KEY of PokemonType: the pokemon row and the type row exist.
FKHolds(p, pr) == pr[1] \in Ids /\ ViewP(p, pr[1]) # NoRow /\ TypeExists(pr[2])
\* An insert into PokemonType waits on a concurrent uncommitted write of the
\* same pair and on a concurrent uncommitted delete of the referenced pokemon.
InsertTypeWaits(p, pr) ==
    \/ PairLocked(p, pr)
    \/ \E q \in Procs \ {p} : pr[1] \in Ids /\ tx[q].wP[pr[1]] = NoRow
InsertTypeOutcome(p, pr) ==
    IF ~FKHolds(p, pr) THEN "ForeignKeyViolation"
    ELSE IF PairTaken(p, pr) THEN "UniqueViolation"
    ELSE "ok"
\* tx.pokemonType.create inside p's transaction, then continue at `next`
TxInsertType(p, pr, next) ==
    /\ ~InsertTypeWaits(p, pr)
    /\ IF InsertTypeOutcome(p, pr) = "ok"
       THEN /\ tx' = [tx EXCEPT ![p].insT = @ (+) SetToBag({pr})]
            /\ UNCHANGED <<pokemon, pokemonType>>
            /\ Goto(p, next)
       ELSE Throw(p, InsertTypeOutcome(p, pr))
    /\ UNCHANGED <<nextId, call, newId, pre, overlaps, found>>

AllIdle == \A q \in Procs : pc[q] = "idle"

Begin(p, c, l) ==
    /\ pc[p] = "idle"
    /\ AllIdle \/ overlaps < MaxOverlaps
    /\ overlaps' = IF AllIdle THEN overlaps ELSE overlaps + 1
    /\ call' = [call EXCEPT ![p] = c]
    /\ pc' = [pc EXCEPT ![p] = l]
    /\ pre' = Snapshot
    /\ UNCHANGED <<pokemon, pokemonType, nextId, result, tx, newId, found>>

Returns(p, v) ==
    /\ pc' = [pc EXCEPT ![p] = "done"]
    /\ result' = [result EXCEPT ![p] = v]

\* ------------------------------------------------------ create
CreateInputs(N, H, R) ==
    [op : {"create"}, name : N, height : {None} \cup {Some(h) : h \in H},
     primaryTypeId : R, secondaryTypeId : {NoRef} \cup R]

\* creates that have not yet drawn their id from the autoincrement counter
PendingCreates ==
    {q \in Procs : pc[q] \in {"c_name", "c_primary", "c_secondary", "c_insert"}}

StartCreate(p, N, H, R) ==
    /\ nextId + Cardinality(PendingCreates) <= MaxId
    /\ \E c \in CreateInputs(N, H, R) : Begin(p, c, "c_name")

\* variant: no check of the name before the insert
CreateNameConflictNever(n) == FALSE
\* if (existingByName) throw
CreateNameConflict(n) == IdsByName(n) # {}

CreateCheckName(p) ==
    /\ pc[p] = "c_name"
    /\ IF CreateNameConflict(call[p].name)
       THEN Throw(p, "Conflict")
       ELSE Goto(p, "c_primary") /\ NoWrite
    /\ UNCHANGED <<nextId, call, newId, pre, overlaps, found>>

CreateCheckPrimary(p) ==
    /\ pc[p] = "c_primary"
    /\ IF ~TypeExists(parseInt(call[p].primaryTypeId))
       THEN Throw(p, "NotFound")
       ELSE /\ Goto(p, IF call[p].secondaryTypeId # NoRef
                       THEN "c_secondary" ELSE "c_insert")
            /\ NoWrite
    /\ UNCHANGED <<nextId, call, newId, pre, overlaps, found>>

\* variant: the secondary reference is not looked up before the transaction
CreateCheckSecondarySkipped(p) ==
    /\ pc[p] = "c_secondary"
    /\ Goto(p, "c_insert") /\ NoWrite
    /\ UNCHANGED <<nextId, call, newId, pre, overlaps, found>>
CreateCheckSecondary(p) ==
    /\ pc[p] = "c_secondary"
    /\ IF ~TypeExists(parseInt(call[p].secondaryTypeId))
       THEN Throw(p, "NotFound")
       ELSE Goto(p, "c_insert") /\ NoWrite
    /\ UNCHANGED <<nextId, call, newId, pre, overlaps, found>>

\* tx.pokemon.create: the first statement of the transaction
CreateInsertPokemon(p) ==
    /\ pc[p] = "c_insert"
    /\ ~NameLocked(p, call[p].name)
    /\ nextId' = nextId + 1
    /\ IF NameTaken(p, call[p].name, 0)
       THEN Throw(p, "UniqueViolation") /\ UNCHANGED newId
       ELSE /\ tx' = [tx EXCEPT ![p].wP[nextId] =
                        Row(call[p].name, OrNull(call[p].height))]
            /\ newId' = [newId EXCEPT ![p] = nextId]
            /\ UNCHANGED <<pokemon, pokemonType>>
            /\ Goto(p, "c_ins_primary")
    /\ UNCHANGED <<call, pre, overlaps, found>>

CreateInsertPrimary(p) ==
    /\ pc[p] = "c_ins_primary"
    /\ TxInsertType(p, <<newId[p], parseInt(call[p].primaryTypeId)>>,
                    IF call[p].secondaryTypeId # NoRef
                    THEN "c_ins_secondary" ELSE "c_commit")

\* variant: a secondary reference equal to the primary one is skipped
CreateInsertSecondaryDedup(p) ==
    /\ pc[p] = "c_ins_secondary"
    /\ IF parseInt(call[p].secondaryTypeId) = parseInt(call[p].primaryTypeId)
       THEN /\ Goto(p, "c_commit") /\ NoWrite
            /\ UNCHANGED <<nextId, call, newId, pre, overlaps, found>>
       ELSE TxInsertType(p, <<newId[p], parseInt(call[p].secondaryTypeId)>>, "c_commit")
CreateInsertSecondary(p) ==
    /\ pc[p] = "c_ins_secondary"
    /\ TxInsertType(p, <<newId[p], parseInt(call[p].secondaryTypeId)>>, "c_commit")

CreateCommit(p) ==
    /\ pc[p] = "c_commit"
    /\ Committed(p)
    /\ Goto(p, "c_find")
    /\ UNCHANGED <<nextId, call, newId, pre, overlaps, found>>

\* return this.findById(pokemon.id)
CreateFindById(p) ==
    /\ pc[p] = "c_find"
    /\ IF Exists(newId[p]) THEN Returns(p, "ok") /\ NoWrite
       ELSE Throw(p, "NotFound")
    /\ UNCHANGED <<nextId, call, newId, pre, overlaps, found>>

\* ------------------------------------------------------ update
UpdateInputs(N, H, R) ==
    [op : {"update"}, id : Ids,
     name : {None} \cup {Some(n) : n \in N},
     height : {None} \cup {Some(h) : h \in H},
     primaryTypeId : {NoRef} \cup R,
     secondaryTypeId : {NoRef} \cup R]

StartUpdate(p, N, H, R) == \E c \in UpdateInputs(N, H, R) : Begin(p, c, "u_find")

\* await this.findById(id), the first statement of update, delete, addType
\* and removeType
FindByIdOr(p, id, next) ==
    /\ IF ~Exists(id) THEN Throw(p, "NotFound")
       ELSE Goto(p, next) /\ NoWrite
    /\ UNCHANGED <<nextId, call, newId, pre, overlaps, found>>

UpdateFindById(p) ==
    /\ pc[p] = "u_find"
    /\ FindByIdOr(p, call[p].id, IF call[p].name # None THEN "u_name" ELSE "u_update")

\* variant: the owner of the name is not compared with the id of the call
UpdateNameConflictAnyOwner(n, id) == IdsByName(n) # {}
\* if (existingByName && existingByName.id !== id) throw
UpdateNameConflict(n, id) == \E i \in IdsByName(n) : i # id

UpdateCheckName(p) ==
    /\ pc[p] = "u_name"
    /\ IF UpdateNameConflict(call[p].name[1], call[p].id)
       THEN Throw(p, "Conflict")
       ELSE Goto(p, "u_update") /\ NoWrite
    /\ UNCHANGED <<nextId, call, newId, pre, overlaps, found>>

\* variant: an absent key is written as null
UpdatedRowNullsAbsent(row, c) ==
    [name |-> IF c.name # None THEN c.name[1] ELSE row.name,
     height |-> c.height]
\* updateData: only the keys that are not undefined
UpdatedRow(row, c) ==
    [name |-> IF c.name # None THEN c.name[1] ELSE row.name,
     height |-> IF c.height # None THEN c.height ELSE row.height]

\* if (data.primaryTypeId || data.secondaryTypeId)
ReplacesTypes(c) == c.primaryTypeId # NoRef \/ c.secondaryTypeId # NoRef

\* tx.pokemon.update: the first statement of the transaction
UpdatePokemon(p) ==
    /\ pc[p] = "u_update"
    /\ ~RowLocked(p, call[p].id)
    /\ call[p].name # None => ~NameLocked(p, call[p].name[1])
    /\ IF ViewP(p, call[p].id) = NoRow
       THEN Throw(p, "RecordNotFound")
       ELSE IF call[p].name # None /\ NameTaken(p, call[p].name[1], call[p].id)
       THEN Throw(p, "UniqueViolation")
       ELSE /\ tx' = [tx EXCEPT ![p].wP[call[p].id] =
                        UpdatedRow(ViewP(p, call[p].id), call[p])]
            /\ UNCHANGED <<pokemon, pokemonType>>
            /\ Goto(p, IF ReplacesTypes(call[p]) THEN "u_delmany" ELSE "u_commit")
    /\ UNCHANGED <<nextId, call, newId, pre, overlaps, found>>

\* the assignments of a pokemon that a statement of p's transaction reads
VisiblePairs(p, id) ==
    {pr \in PairsOf(pokemonType, id) : pr \notin tx[p].delT}
        \cup PairsOf(tx[p].insT, id)

\* variant: the old assignments are kept
TxDeleteManyKeeps(p, id, next) ==
    /\ Goto(p, next) /\ NoWrite
    /\ UNCHANGED <<nextId, call, newId, pre, overlaps, found>>
\* tx.pokemonType.deleteMany({ where: { pokemonId: id } })
TxDeleteMany(p, id, next) ==
    /\ \A pr \in VisiblePairs(p, id) : ~PairLocked(p, pr)
    /\ tx' = [tx EXCEPT ![p].delT = @ \cup PairsOf(pokemonType, id),
                        ![p].insT = [pr \in BagToSet(@) \ PairsOf(@, id) |-> @[pr]]]
    /\ UNCHANGED <<pokemon, pokemonType>>
    /\ Goto(p, next)
    /\ UNCHANGED <<nextId, call, newId, pre, overlaps, found>>

UpdateDeleteTypes(p) ==
    /\ pc[p] = "u_delmany"
    /\ TxDeleteMany(p, call[p].id,
                    IF call[p].primaryTypeId # NoRef THEN "u_primary" ELSE "u_secondary")

\* tx.type.findUnique inside the transaction: a miss throws and rolls back
TxFindType(p, ref, next) ==
    /\ IF ~TypeExists(parseInt(ref)) THEN Throw(p, "NotFound")
       ELSE Goto(p, next) /\ NoWrite
    /\ UNCHANGED <<nextId, call, newId, pre, overlaps, found>>

UpdateFindPrimary(p) ==
    /\ pc[p] = "u_primary"
    /\ TxFindType(p, call[p].primaryTypeId, "u_ins_primary")

UpdateInsertPrimary(p) ==
    /\ pc[p] = "u_ins_primary"
    /\ TxInsertType(p, <<call[p].id, parseInt(call[p].primaryTypeId)>>,
                    IF call[p].secondaryTypeId # NoRef THEN "u_secondary" ELSE "u_commit")

UpdateFindSecondary(p) ==
    /\ pc[p] = "u_secondary"
    /\ TxFindType(p, call[p].secondaryTypeId, "u_ins_secondary")

UpdateInsertSecondary(p) ==
    /\ pc[p] = "u_ins_secondary"
    /\ TxInsertType(p, <<call[p].id, parseInt(call[p].secondaryTypeId)>>, "u_commit")

UpdateCommit(p) ==
    /\ pc[p] = "u_commit"
    /\ Committed(p)
    /\ Goto(p, "u_final")
    /\ UNCHANGED <<nextId, call, newId, pre, overlaps, found>>

\* return this.findById(pokemon.id)
UpdateFinalFind(p) ==
    /\ pc[p] = "u_final"
    /\ IF Exists(call[p].id) THEN Returns(p, "ok") /\ NoWrite
       ELSE Throw(p, "NotFound")
    /\ UNCHANGED <<nextId, call, newId, pre, overlaps, found>>

\* ------------------------------------------------------ delete
DeleteInputs == [op : {"delete"}, id : Ids]

StartDelete(p) == \E c \in DeleteInputs : Begin(p, c, "d_find")

DeleteFindById(p) ==
    /\ pc[p] = "d_find"
    /\ FindByIdOr(p, call[p].id, "d_delmany")

DeleteTypes(p) ==
    /\ pc[p] = "d_delmany"
    /\ TxDeleteMany(p, call[p].id, "d_delete")

\* The relation PokemonType -> Pokemon deletes the assignments of a deleted
\* pokemon (ownership: cascade on delete).
OnDeleteCascade == TRUE

\* tx.pokemon.delete({ where: { id } })
DeletePokemon(p) ==
    /\ pc[p] = "d_delete"
    /\ ~RowLocked(p, call[p].id)
    /\ \A pr \in VisiblePairs(p, call[p].id) : ~PairLocked(p, pr)
    /\ IF ViewP(p, call[p].id) = NoRow
       THEN Throw(p, "RecordNotFound")
       ELSE IF VisiblePairs(p, call[p].id) # {} /\ ~OnDeleteCascade
       THEN Throw(p, "ForeignKeyViolation")
       ELSE /\ tx' = [tx EXCEPT ![p].wP[call[p].id] = NoRow,
                               ![p].delT = @ \cup PairsOf(pokemonType, call[p].id)]
            /\ UNCHANGED <<pokemon, pokemonType>>
            /\ Goto(p, "d_commit")
    /\ UNCHANGED <<nextId, call, newId, pre, overlaps, found>>

\* variant: the transaction is abandoned and the call still acknowledges
DeleteCommitLost(p) ==
    /\ pc[p] = "d_commit"
    /\ Rollback(p)
    /\ Returns(p, "ok")
    /\ UNCHANGED <<nextId, call, newId, pre, overlaps, found>>

DeleteCommit(p) ==
    /\ pc[p] = "d_commit"
    /\ Committed(p)
    /\ Returns(p, "ok")
    /\ UNCHANGED <<nextId, call, newId, pre, overlaps, found>>

\* ------------------------------------------------------ addType
TypeIds == 1..(NumTypes + 1)
AddTypeInputs == [op : {"addType"}, pokemonId : Ids, typeId : TypeIds]

StartAddType(p) == \E c \in AddTypeInputs : Begin(p, c, "a_find")

AddTypeFindById(p) ==
    /\ pc[p] = "a_find"
    /\ FindByIdOr(p, call[p].pokemonId, "a_type")

AddTypeFindType(p) ==
    /\ pc[p] = "a_type"
    /\ IF ~TypeExists(call[p].typeId) THEN Throw(p, "NotFound")
       ELSE Goto(p, "a_pair") /\ NoWrite
    /\ UNCHANGED <<nextId, call, newId, pre, overlaps, found>>

\* if (existingPokemonType) throw
AddTypeFindPair(p) ==
    /\ pc[p] = "a_pair"
    /\ IF CopiesIn(<<call[p].pokemonId, call[p].typeId>>, pokemonType) > 0
       THEN Throw(p, "Conflict")
       ELSE Goto(p, "a_count") /\ NoWrite
    /\ UNCHANGED <<nextId, call, newId, pre, overlaps, found>>

\* variant: off by one
AtMaxTypesOffByOne(n) == n > 2
\* if (existingTypes >= 2) throw
AtMaxTypes(n) == n >= 2

AddTypeCount(p) ==
    /\ pc[p] = "a_count"
    /\ IF AtMaxTypes(CountTypes(call[p].pokemonId))
       THEN Throw(p, "InvariantViolation")
       ELSE Goto(p, "a_create") /\ NoWrite
    /\ UNCHANGED <<nextId, call, newId, pre, overlaps, found>>

\* variant: the insert does not wait for, or check, the referenced pokemon
AddTypeCreateUnreferenced(p) ==
    /\ pc[p] = "a_create"
    /\ LET pr == <<call[p].pokemonId, call[p].typeId>> IN
       /\ ~PairLocked(p, pr)
       /\ IF ~TypeExists(pr[2]) THEN Throw(p, "ForeignKeyViolation")
          ELSE IF PairTaken(p, pr) THEN Throw(p, "UniqueViolation")
          ELSE /\ pokemonType' = pokemonType (+) SetToBag({pr})
               /\ Returns(p, "ok") /\ UNCHANGED <<pokemon, tx>>
    /\ UNCHANGED <<nextId, call, newId, pre, overlaps, found>>
\* prisma.pokemonType.create outside any transaction: committed at once
AddTypeCreate(p) ==
    /\ pc[p] = "a_create"
    /\ LET pr == <<call[p].pokemonId, call[p].typeId>> IN
       /\ ~InsertTypeWaits(p, pr)
       /\ IF InsertTypeOutcome(p, pr) = "ok"
          THEN /\ pokemonType' = pokemonType (+) SetToBag({pr})
               /\ Returns(p, "ok") /\ UNCHANGED <<pokemon, tx>>
          ELSE Throw(p, InsertTypeOutcome(p, pr))
    /\ UNCHANGED <<nextId, call, newId, pre, overlaps, found>>

\* ------------------------------------------------------ removeType
RemoveTypeInputs == [op : {"removeType"}, pokemonId : Ids, typeId : TypeIds]

StartRemoveType(p) == \E c \in RemoveTypeInputs : Begin(p, c, "r_find")

RemoveTypeFindById(p) ==
    /\ pc[p] = "r_find"
    /\ FindByIdOr(p, call[p].pokemonId, "r_count")

\* variant: off by one
AtMinTypesOffByOne(n) == n < 1
\* if (typeCount <= 1) throw
AtMinTypes(n) == n <= 1

RemoveTypeCount(p) ==
    /\ pc[p] = "r_count"
    /\ IF AtMinTypes(CountTypes(call[p].pokemonId))
       THEN Throw(p, "InvariantViolation")
       ELSE Goto(p, "r_delete") /\ NoWrite
    /\ UNCHANGED <<nextId, call, newId, pre, overlaps, found>>

\* variant: deleting a row that does not exist is not an error
RemoveTypeDeleteIfAny(p) ==
    /\ pc[p] = "r_delete"
    /\ LET pr == <<call[p].pokemonId, call[p].typeId>> IN
       /\ ~PairLocked(p, pr)
       /\ pokemonType' = [x \in BagToSet(pokemonType) \ {pr} |-> pokemonType[x]]
       /\ Returns(p, "ok") /\ UNCHANGED <<pokemon, tx>>
    /\ UNCHANGED <<nextId, call, newId, pre, overlaps, found>>
\* prisma.pokemonType.delete({ where: { pokemonId_typeId } }) outside any
\* transaction: throws when no such row exists
RemoveTypeDelete(p) ==
    /\ pc[p] = "r_delete"
    /\ LET pr == <<call[p].pokemonId, call[p].typeId>> IN
       /\ ~PairLocked(p, pr)
       /\ IF CopiesIn(pr, pokemonType) = 0
          THEN Throw(p, "RecordNotFound")
          ELSE /\ pokemonType' = [x \in BagToSet(pokemonType) \ {pr} |-> pokemonType[x]]
               /\ Returns(p, "ok") /\ UNCHANGED <<pokemon, tx>>
    /\ UNCHANGED <<nextId, call, newId, pre, overlaps, found>>

\* ------------------------------------------------------ findById
FindByIdInputs == [op : {"findById"}, id : Ids]

StartFindById(p) == \E c \in FindByIdInputs : Begin(p, c, "f_find")

\* if (!pokemon) throw; return pokemon
FindById(p) ==
    /\ pc[p] = "f_find"
    /\ IF ~Exists(call[p].id) THEN Throw(p, "NotFound")
       ELSE Returns(p, "ok") /\ NoWrite
    /\ UNCHANGED <<nextId, call, newId, pre, overlaps, found>>

\* ------------------------------------------------------ findMany: metadata
\* A JavaScript number that may be Infinity or NaN.
Num(n) == [kind |-> "finite", n |-> n]
Infinity == [kind |-> "Infinity", n |-> 0]
NaN == [kind |-> "NaN", n |-> 0]

\* variant: the quotient is rounded down
TotalPagesFloor(total, limit) ==
    IF limit = 0 THEN (IF total = 0 THEN NaN ELSE Infinity)
    ELSE Num(total \div limit)

\* Math.ceil(total / limit), for total >= 0 and limit >= 0
TotalPages(total, limit) ==
    IF limit = 0 THEN (IF total = 0 THEN NaN ELSE Infinity)
    ELSE Num((total \div limit) + (IF total % limit # 0 THEN 1 ELSE 0))

\* the pagination object of the value findMany returns
Pagination(page, limit, total) ==
    [page |-> page, limit |-> limit, total |-> total,
     totalPages |-> TotalPages(total, limit),
     hasNext |-> page * limit < total,
     hasPrev |-> page > 1]

\* the return statement of findMany, given the page, the limit and the
\* total that prisma.pokemon.count returned
PaginationInputs ==
    [op : {"pagination"}, page : 1..MaxPage, limit : 0..MaxLimit, total : 0..MaxTotal]

ComputePagination(p) ==
    /\ pc[p] = "m_compute"
    /\ found' = [found EXCEPT ![p] =
                   [pagination |-> Pagination(call[p].page, call[p].limit, call[p].total)]]
    /\ Returns(p, "ok") /\ NoWrite
    /\ UNCHANGED <<nextId, call, newId, pre, overlaps>>

\* ------------------------------------------------------ findMany: queries
\* the characters of a name
NameChars(n) ==
    CASE n = "Bulbasaur" -> <<"B", "u", "l", "b", "a", "s", "a", "u", "r">>
      [] n = "Pikachu" -> <<"P", "i", "k", "a", "c", "h", "u">>

\* case folding of `mode: 'insensitive'`
ToLower(ch) ==
    CASE ch = "B" -> "b" [] ch = "I" -> "i" [] ch = "K" -> "k"
      [] ch = "P" -> "p" [] OTHER -> ch
LowerCase(s) == [k \in 1..Len(s) |-> ToLower(s[k])]

\* `contains`: needle occurs in hay as a substring
Contains(hay, needle) ==
    \E k \in 0..(Len(hay) - Len(needle)) : SubSeq(hay, k + 1, k + Len(needle)) = needle

\* search strings and label filters of the queries
Searches == {<<>>, <<"p", "I", "K">>}
FindRefs == {<<1>>}
FindManyInputs ==
    [op : {"findMany"}, page : 1..(MaxId + 1), limit : 1..MaxId,
     search : Searches, typeId : {NoRef} \cup FindRefs]

\* the `where` of the query, on the committed tables s
Where(s, c, i) ==
    /\ s.pokemon[i] # NoRow
    /\ c.search # <<>> =>
         Contains(LowerCase(NameChars(s.pokemon[i].name)), LowerCase(c.search))
    /\ c.typeId # NoRef => CopiesIn(<<i, parseInt(c.typeId)>>, s.pokemonType) > 0

\* orderBy: { id: 'asc' }
RECURSIVE OrderByIdAsc(_)
OrderByIdAsc(S) ==
    IF S = {} THEN <<>>
    ELSE LET lo == CHOOSE i \in S : \A j \in S : i <= j
         IN <<lo>> \o OrderByIdAsc(S \ {lo})

\* variant: the offset of the following page
SkipNextPage(page, limit) == page * limit
\* const skip = (page - 1) * limit
Skip(page, limit) == (page - 1) * limit

\* prisma.pokemon.findMany({ where, skip, take: limit, orderBy })
FindManyRows(s, c) ==
    LET rows == OrderByIdAsc({i \in Ids : Where(s, c, i)})
        skip == Skip(c.page, c.limit)
        last == IF skip + c.limit < Len(rows) THEN skip + c.limit ELSE Len(rows)
    IN IF skip + 1 > last THEN <<>> ELSE SubSeq(rows, skip + 1, last)

\* prisma.pokemon.count({ where })
CountRows(s, c) == Cardinality({i \in Ids : Where(s, c, i)})

StartFindMany(p) == \E c \in FindManyInputs : Begin(p, c, "fm_query")

\* the two queries of Promise.all, none answered yet
Reading(p) ==
    IF found[p] = NoFound
    THEN [got |-> {}, data |-> <<>>, total |-> 0, atData |-> NoFound,
          atCount |-> NoFound, pagination |-> NoFound]
    ELSE found[p]

\* Promise.all resolves once both queries are answered; findMany then returns
Resolve(p, r) ==
    IF r.got = {"data", "count"}
    THEN /\ found' = [found EXCEPT ![p] =
                 [r EXCEPT !.pagination = Pagination(call[p].page, call[p].limit, r.total)]]
         /\ Returns(p, "ok")
    ELSE /\ found' = [found EXCEPT ![p] = r]
         /\ Goto(p, "fm_query")

\* the store answers the findMany query
FindManyData(p) ==
    /\ pc[p] = "fm_query"
    /\ "data" \notin Reading(p).got
    /\ Resolve(p, [Reading(p) EXCEPT !.got = @ \cup {"data"},
                                     !.data = FindManyRows(Snapshot, call[p]),
                                     !.atData = Snapshot])
    /\ NoWrite
    /\ UNCHANGED <<nextId, call, newId, pre, overlaps>>

\* the store answers the count query
FindManyCount(p) ==
    /\ pc[p] = "fm_query"
    /\ "count" \notin Reading(p).got
    /\ Resolve(p, [Reading(p) EXCEPT !.got = @ \cup {"count"},
                                     !.total = CountRows(Snapshot, call[p]),
                                     !.atCount = Snapshot])
    /\ NoWrite
    /\ UNCHANGED <<nextId, call, newId, pre, overlaps>>

\* ------------------------------------------------------ the caller returns
Return(p) ==
    /\ pc[p] = "done"
    /\ pc' = [pc EXCEPT ![p] = "idle"]
    /\ call' = [call EXCEPT ![p] = NoCall]
    /\ result' = [result EXCEPT ![p] = "none"]
    /\ newId' = [newId EXCEPT ![p] = 0]
    /\ found' = [found EXCEPT ![p] = NoFound]
    /\ UNCHANGED <<pokemon, pokemonType, nextId, tx, pre, overlaps>>

Init ==
    /\ pokemon = [i \in Ids |-> NoRow]
    /\ pokemonType = EmptyBag
    /\ nextId = 1
    /\ pc = [p \in Procs |-> "idle"]
    /\ call = [p \in Procs |-> NoCall]
    /\ result = [p \in Procs |-> "none"]
    /\ tx = [p \in Procs |-> NoTx]
    /\ newId = [p \in Procs |-> 0]
    /\ pre = Snapshot
    /\ overlaps = 0
    /\ found = [p \in Procs |-> NoFound]

\* ------------------------------------------------------ specifications
Step(p) ==
    \/ CreateCheckName(p) \/ CreateCheckPrimary(p) \/ CreateCheckSecondary(p)
    \/ CreateInsertPokemon(p) \/ CreateInsertPrimary(p) \/ CreateInsertSecondary(p)
    \/ CreateCommit(p) \/ CreateFindById(p)
    \/ UpdateFindById(p) \/ UpdateCheckName(p) \/ UpdatePokemon(p)
    \/ UpdateDeleteTypes(p) \/ UpdateFindPrimary(p) \/ UpdateInsertPrimary(p)
    \/ UpdateFindSecondary(p) \/ UpdateInsertSecondary(p)
    \/ UpdateCommit(p) \/ UpdateFinalFind(p)
    \/ DeleteFindById(p) \/ DeleteTypes(p) \/ DeletePokemon(p) \/ DeleteCommit(p)
    \/ AddTypeFindById(p) \/ AddTypeFindType(p) \/ AddTypeFindPair(p)
    \/ AddTypeCount(p) \/ AddTypeCreate(p)
    \/ RemoveTypeFindById(p) \/ RemoveTypeCount(p) \/ RemoveTypeDelete(p)
    \/ FindById(p)
    \/ Return(p)

\* a caller begins a call with names from N, heights from H and label
\* references from R
Start(p, N, H, R) ==
    \/ StartCreate(p, N, H, R) \/ StartUpdate(p, N, H, R) \/ StartDelete(p)
    \/ StartAddType(p) \/ StartRemoveType(p) \/ StartFindById(p)

\* callers run concurrently
Next == \E p \in Procs : Start(p, ConcNames, {}, ConcRefs) \/ Step(p)
Spec == Init /\ [][Next]_vars

\* each call completes before the next starts
NextSeq ==
    \E p \in Procs : (AllIdle /\ Start(p, Names, HeightVals, TypeRefs)) \/ Step(p)
SpecSeq == Init /\ [][NextSeq]_vars

\* the pagination metadata as a function of its inputs
InitMeta ==
    /\ pokemon = [i \in Ids |-> NoRow]
    /\ pokemonType = EmptyBag
    /\ nextId = 1
    /\ pc = [p \in Procs |-> IF p = 1 THEN "m_compute" ELSE "idle"]
    /\ call \in {[p \in Procs |-> IF p = 1 THEN c ELSE NoCall] : c \in PaginationInputs}
    /\ result = [p \in Procs |-> "none"]
    /\ tx = [p \in Procs |-> NoTx]
    /\ newId = [p \in Procs |-> 0]
    /\ pre = Snapshot
    /\ overlaps = 0
    /\ found = [p \in Procs |-> NoFound]
NextMeta == \E p \in Procs : ComputePagination(p)
SpecMeta == InitMeta /\ [][NextMeta]_vars

\* queries run concurrently with create and delete calls
StepFind(p) ==
    \/ CreateCheckName(p) \/ CreateCheckPrimary(p) \/ CreateCheckSecondary(p)
    \/ CreateInsertPokemon(p) \/ CreateInsertPrimary(p) \/ CreateInsertSecondary(p)
    \/ CreateCommit(p) \/ CreateFindById(p)
    \/ DeleteFindById(p) \/ DeleteTypes(p) \/ DeletePokemon(p) \/ DeleteCommit(p)
    \/ FindManyData(p) \/ FindManyCount(p)
    \/ Return(p)
NextFind ==
    \E p \in Procs :
        \/ StartCreate(p, Names, {}, ConcRefs) \/ StartDelete(p) \/ StartFindMany(p)
        \/ StepFind(p)
SpecFind == Init /\ [][NextFind]_vars

\* ------------------------------------------------------ properties
Done(p, op) == pc[p] = "done" /\ call[p].op = op
Resolves(ref) == TypeExists(parseInt(ref))
PreExists(id) == id \in Ids /\ pre.pokemon[id] # NoRow
PreIdsByName(n) == {i \in Ids : pre.pokemon[i] # NoRow /\ pre.pokemon[i].name = n}
PreCount(id) == SumCopies(pre.pokemonType, PairsOf(pre.pokemonType, id))
PreHas(id, t) == CopiesIn(<<id, t>>, pre.pokemonType) > 0
TablesAsBefore == Snapshot = pre
OneOrTwo(id) == CountTypes(id) \in {1, 2}
SuppliedTypes(c) ==
    {parseInt(r) : r \in {c.primaryTypeId, c.secondaryTypeId} \ {NoRef}}

\* C1: under any interleaving of concurrent create, update, delete, addType
\* and removeType calls, every entity of the committed store has 1 or 2
\* assignments.
C1_CardinalityUnderConcurrency == \A id \in Ids : Exists(id) => OneOrTwo(id)

\* C2: when calls run one at a time, after any sequence of calls every
\* existing entity has 1 or 2 assignments and no (pokemonId, typeId) pair
\* occurs twice.
C2_SequentialCardinality ==
    /\ \A id \in Ids : Exists(id) => CountTypes(id) >= 1 /\ CountTypes(id) <= 2
    /\ \A pr \in BagToSet(pokemonType) : CopiesIn(pr, pokemonType) = 1
C2_Witness ==
    \E p \in Procs :
        /\ Done(p, "removeType") /\ result[p] = "ok"
        /\ PreCount(call[p].pokemonId) = 2
        /\ CountTypes(call[p].pokemonId) = 1

\* C3: two concurrent create calls with the same fresh name and valid labels:
\* exactly one succeeds and the other fails with Conflict; one entity carries
\* the name, and the failed call leaves no row behind.
ValidLabels(c) ==
    /\ Resolves(c.primaryTypeId)
    /\ c.secondaryTypeId # NoRef =>
         Resolves(c.secondaryTypeId)
         /\ parseInt(c.secondaryTypeId) # parseInt(c.primaryTypeId)
C3_ConcurrentCreateSameName ==
    \A p, q \in Procs :
        ( /\ p # q /\ Done(p, "create") /\ Done(q, "create")
          /\ call[p].name = call[q].name
          /\ ValidLabels(call[p]) /\ ValidLabels(call[q])
          /\ PreIdsByName(call[p].name) = {} )
        => /\ {result[p], result[q]} = {"ok", "Conflict"}
           /\ Cardinality(IdsByName(call[p].name)) = 1
           /\ \A pr \in BagToSet(pokemonType) : Exists(pr[1])

\* C4: create with the name of an existing entity fails with Conflict,
\* whatever the other inputs, and leaves both tables unchanged.
C4_CreateExistingName ==
    \A p \in Procs :
        (Done(p, "create") /\ PreIdsByName(call[p].name) # {})
        => result[p] = "Conflict" /\ TablesAsBefore
C4_Witness ==
    \E p \in Procs :
        /\ Done(p, "create") /\ PreIdsByName(call[p].name) # {}
        /\ ~Resolves(call[p].primaryTypeId)
        /\ result[p] = "Conflict"

\* C5: create with a fresh name whose primary reference, or whose supplied
\* secondary reference, does not resolve fails with NotFound and leaves both
\* tables unchanged.
C5_CreateUnknownLabel ==
    \A p \in Procs :
        ( /\ Done(p, "create") /\ PreIdsByName(call[p].name) = {}
          /\ \/ ~Resolves(call[p].primaryTypeId)
             \/ call[p].secondaryTypeId # NoRef /\ ~Resolves(call[p].secondaryTypeId) )
        => result[p] = "NotFound" /\ TablesAsBefore
C5_Witness ==
    \E p \in Procs :
        /\ Done(p, "create") /\ PreIdsByName(call[p].name) = {}
        /\ Resolves(call[p].primaryTypeId)
        /\ call[p].secondaryTypeId # NoRef /\ ~Resolves(call[p].secondaryTypeId)
        /\ result[p] = "NotFound"
        /\ \E id \in Ids : Exists(id)

\* C6: a successful update that supplies at least one label reference leaves
\* the entity with exactly the supplied labels, one assignment each.
C6_UpdateReplacesTypes ==
    \A p \in Procs :
        (Done(p, "update") /\ result[p] = "ok" /\ ReplacesTypes(call[p]))
        => /\ \A t \in SuppliedTypes(call[p]) :
                CopiesIn(<<call[p].id, t>>, pokemonType) = 1
           /\ \A pr \in PairsOf(pokemonType, call[p].id) :
                pr[2] \in SuppliedTypes(call[p])
C6_Witness ==
    \E p \in Procs :
        /\ Done(p, "update") /\ result[p] = "ok"
        /\ call[p].primaryTypeId # NoRef /\ call[p].secondaryTypeId = NoRef
        /\ PreCount(call[p].id) = 2
        /\ ~PreHas(call[p].id, parseInt(call[p].primaryTypeId))
        /\ CountTypes(call[p].id) = 1

\* C7 as stated: update of an existing entity that supplies a label reference
\* which does not resolve fails with NotFound and has no visible effect.
SuppliesUnknownLabel(c) ==
    \/ c.primaryTypeId # NoRef /\ ~Resolves(c.primaryTypeId)
    \/ c.secondaryTypeId # NoRef /\ ~Resolves(c.secondaryTypeId)
C7_UpdateUnknownLabel ==
    \A p \in Procs :
        ( /\ Done(p, "update") /\ PreExists(call[p].id)
          /\ SuppliesUnknownLabel(call[p]) )
        => result[p] = "NotFound" /\ TablesAsBefore
\* C7 amended: the same, for an update whose supplied name, if any, is not
\* owned by a different entity.
NameOwnedByOther(c) ==
    c.name # None /\ \E i \in PreIdsByName(c.name[1]) : i # c.id
C7_UpdateUnknownLabelAmended ==
    \A p \in Procs :
        ( /\ Done(p, "update") /\ PreExists(call[p].id)
          /\ SuppliesUnknownLabel(call[p])
          /\ ~NameOwnedByOther(call[p]) )
        => result[p] = "NotFound" /\ TablesAsBefore
C7_Witness ==
    \E p \in Procs :
        /\ Done(p, "update") /\ PreExists(call[p].id)
        /\ call[p].primaryTypeId # NoRef /\ Resolves(call[p].primaryTypeId)
        /\ call[p].secondaryTypeId # NoRef /\ ~Resolves(call[p].secondaryTypeId)
        /\ call[p].height # None /\ call[p].height # pre.pokemon[call[p].id].height
        /\ ~PreHas(call[p].id, parseInt(call[p].primaryTypeId))
        /\ result[p] = "NotFound"

\* C8: removeType on an existing entity with exactly one assignment fails
\* with InvariantViolation for every type id and leaves the assignment.
C8_RemoveLastType ==
    \A p \in Procs :
        ( /\ Done(p, "removeType") /\ PreExists(call[p].pokemonId)
          /\ PreCount(call[p].pokemonId) = 1 )
        => result[p] = "InvariantViolation" /\ TablesAsBefore
C8_Witness ==
    \E p \in Procs :
        /\ Done(p, "removeType") /\ PreExists(call[p].pokemonId)
        /\ PreCount(call[p].pokemonId) = 1
        /\ PreHas(call[p].pokemonId, call[p].typeId)
        /\ result[p] = "InvariantViolation"

\* C9 as stated: addType on an existing entity that holds 2 labels fails with
\* InvariantViolation for every existing type id and changes nothing.
C9_AddThirdType ==
    \A p \in Procs :
        ( /\ Done(p, "addType") /\ PreExists(call[p].pokemonId)
          /\ PreCount(call[p].pokemonId) = 2 /\ TypeExists(call[p].typeId) )
        => result[p] = "InvariantViolation" /\ TablesAsBefore
\* C9 amended: it fails with InvariantViolation for every existing type id
\* the entity does not carry, and with Conflict for a type it carries; in
\* both cases nothing changes.
C9_AddThirdTypeAmended ==
    \A p \in Procs :
        ( /\ Done(p, "addType") /\ PreExists(call[p].pokemonId)
          /\ PreCount(call[p].pokemonId) = 2 /\ TypeExists(call[p].typeId) )
        => /\ result[p] = IF PreHas(call[p].pokemonId, call[p].typeId)
                          THEN "Conflict" ELSE "InvariantViolation"
           /\ TablesAsBefore
C9_Witness ==
    \E p \in Procs :
        /\ Done(p, "addType") /\ PreExists(call[p].pokemonId)
        /\ PreCount(call[p].pokemonId) = 2 /\ TypeExists(call[p].typeId)
        /\ ~PreHas(call[p].pokemonId, call[p].typeId)
        /\ result[p] = "InvariantViolation"

\* C10: two concurrent addType calls with the same (pokemonId, typeId) on an
\* entity that has one other label: exactly one succeeds, the other fails
\* with Conflict, and the pair is assigned exactly once afterwards.
C10_ConcurrentAddSamePair ==
    \A p, q \in Procs :
        ( /\ p # q /\ Done(p, "addType") /\ Done(q, "addType")
          /\ call[p].pokemonId = call[q].pokemonId
          /\ call[p].typeId = call[q].typeId
          /\ PreExists(call[p].pokemonId) /\ PreCount(call[p].pokemonId) = 1
          /\ ~PreHas(call[p].pokemonId, call[p].typeId)
          /\ TypeExists(call[p].typeId) )
        => /\ {result[p], result[q]} = {"ok", "Conflict"}
           /\ CopiesIn(<<call[p].pokemonId, call[p].typeId>>, pokemonType) = 1

\* C11: a successful delete(id) removes the entity and all its assignments
\* and nothing else; an id that is gone stays gone (ids are not issued
\* twice), and findById of an id that is gone fails with NotFound.
OthersAsBefore(id) ==
    /\ \A i \in Ids \ {id} : pokemon[i] = pre.pokemon[i]
    /\ \A pr \in BagToSet(pokemonType) \cup BagToSet(pre.pokemonType) :
         pr[1] # id => CopiesIn(pr, pokemonType) = CopiesIn(pr, pre.pokemonType)
DeleteRemoved(p) ==
    /\ ~Exists(call[p].id)
    /\ PairsOf(pokemonType, call[p].id) = {}
    /\ OthersAsBefore(call[p].id)
\* the id was drawn from the counter and no row carries it, committed or not
Gone(id) ==
    id < nextId /\ ~Exists(id) /\ \A q \in Procs : tx[q].wP[id] = Untouched
C11_DeleteStep ==
    /\ \A p \in Procs :
         (Done(p, "delete") /\ result[p] = "ok") => DeleteRemoved(p)
    /\ \A id \in Ids : Gone(id) => pokemon'[id] = NoRow
    /\ \A p \in Procs :
         (Done(p, "findById") /\ Gone(call[p].id))
         => result[p] = "NotFound"
C11_DeleteThenNotFound == [][C11_DeleteStep]_vars
C11_Witness ==
    \E p \in Procs :
        /\ Done(p, "findById") /\ Gone(call[p].id) /\ result[p] = "NotFound"
        /\ \E i \in Ids \ {call[p].id} : Exists(i) /\ CountTypes(i) = 2

\* C12: for page >= 1, pageSize >= 1 and any total, totalPages is the least
\* number of pages of pageSize items that hold total items, hasNext says that
\* items remain after this page, hasPrev that the page is not the first; with
\* 25 items and pageSize 10, page 4 has hasNext false, hasPrev true and
\* totalPages 3.
Computed(p) == pc[p] = "done" /\ call[p].op = "pagination"
C12_PaginationMetadata ==
    \A p \in Procs :
        (Computed(p) /\ call[p].limit >= 1) =>
            LET m == found[p].pagination
                c == call[p]
            IN /\ m.totalPages.kind = "finite"
               /\ m.totalPages.n * c.limit >= c.total
               /\ m.totalPages.n >= 0
               /\ m.totalPages.n > 0 => (m.totalPages.n - 1) * c.limit < c.total
               /\ m.hasNext <=> c.total > c.page * c.limit
               /\ m.hasNext <=> c.page < m.totalPages.n
               /\ m.hasPrev <=> c.page > 1
               /\ m.page = c.page /\ m.limit = c.limit /\ m.total = c.total
               /\ (c.total = 25 /\ c.limit = 10 /\ c.page = 4) =>
                    (~m.hasNext /\ m.hasPrev /\ m.totalPages = Num(3))
C12_Witness ==
    \E p \in Procs :
        /\ Computed(p)
        /\ call[p].total = 25 /\ call[p].limit = 10 /\ call[p].page = 4
        /\ found[p].pagination.totalPages = Num(3)

\* C14: findMany called with pageSize <= 0 returns metadata with
\* pageSize >= 1 and a finite, non-negative totalPages.
C14_PageSizeClamped ==
    \A p \in Procs :
        (Computed(p) /\ call[p].limit <= 0) =>
            /\ found[p].pagination.limit >= 1
            /\ found[p].pagination.totalPages.kind = "finite"
            /\ found[p].pagination.totalPages.n >= 0

\* the entities of the tables s that match the filters of the query c
NameHas(name, search) ==
    \E k \in 0..(Len(name) - Len(search)) :
        \A j \in 1..Len(search) : ToLower(name[k + j]) = ToLower(search[j])
MatchingIds(s, c) ==
    {i \in Ids :
        /\ s.pokemon[i] # NoRow
        /\ NameHas(NameChars(s.pokemon[i].name), c.search)
        /\ c.typeId # NoRef =>
             \E pr \in BagToSet(s.pokemonType) : pr[1] = i /\ pr[2] = parseInt(c.typeId)}
RankIn(M, i) == Cardinality({j \in M : j < i})

\* C13: for page >= 1 and pageSize >= 1 the data findMany returns is the
\* slice [(page-1)*pageSize, page*pageSize) of the matching entities in
\* ascending id order: ascending, at most pageSize items, exactly the
\* matching entities whose rank falls in the slice, and an empty array (not
\* an error) for a page beyond the last.
C13_PageIsSlice ==
    \A p \in Procs :
        Done(p, "findMany") =>
            LET c == call[p]
                data == found[p].data
                M == MatchingIds(found[p].atData, c)
                lo == (c.page - 1) * c.limit
                hi == c.page * c.limit
            IN /\ result[p] = "ok"
               /\ Len(data) <= c.limit
               /\ \A k \in 1..(Len(data) - 1) : data[k] < data[k + 1]
               /\ \A i \in Ids :
                    (\E k \in 1..Len(data) : data[k] = i)
                        <=> (i \in M /\ lo <= RankIn(M, i) /\ RankIn(M, i) < hi)
               /\ lo >= Cardinality(M) => data = <<>>
C13_Witness ==
    \E p \in Procs :
        /\ Done(p, "findMany")
        /\ call[p].page = 2 /\ call[p].limit = 1 /\ call[p].typeId # NoRef
        /\ found[p].data = <<2>>

\* C19: the total findMany returns (and with it totalPages and hasNext) is
\* the number of matching entities in the store state from which the page of
\* data was read, also when create or delete calls commit concurrently.
C19_TotalMatchesData ==
    \A p \in Procs :
        Done(p, "findMany") =>
            LET n == Cardinality(MatchingIds(found[p].atData, call[p]))
            IN /\ found[p].total = n
               /\ found[p].pagination = Pagination(call[p].page, call[p].limit, n)

\* C15: create with a fresh name and a secondary label reference equal to its
\* existing primary one is rejected as a duplicate assignment: it never
\* succeeds, and it leaves no entity row and no assignment behind.
SecondaryEqualsPrimary(c) ==
    /\ c.secondaryTypeId # NoRef
    /\ parseInt(c.secondaryTypeId) = parseInt(c.primaryTypeId)
C15_CreateDuplicateLabel ==
    \A p \in Procs :
        ( /\ Done(p, "create") /\ PreIdsByName(call[p].name) = {}
          /\ Resolves(call[p].primaryTypeId)
          /\ SecondaryEqualsPrimary(call[p]) )
        => result[p] = "UniqueViolation" /\ TablesAsBefore
C15_Witness ==
    \E p \in Procs :
        /\ Done(p, "create") /\ PreIdsByName(call[p].name) = {}
        /\ Resolves(call[p].primaryTypeId)
        /\ SecondaryEqualsPrimary(call[p])
        /\ result[p] = "UniqueViolation"
        /\ newId[p] # 0 /\ ~Exists(newId[p])

\* C16: a successful update changes only the scalar fields whose keys are
\* present in the input; an absent field keeps its previous value, the
\* assignments of the entity are unchanged when neither label reference is
\* supplied, and no other entity is modified.
AssignmentsAsBefore(id) ==
    \A pr \in BagToSet(pokemonType) \cup BagToSet(pre.pokemonType) :
        pr[1] = id => CopiesIn(pr, pokemonType) = CopiesIn(pr, pre.pokemonType)
C16_UpdateFrame ==
    \A p \in Procs :
        (Done(p, "update") /\ result[p] = "ok")
        => LET c == call[p]
               old == pre.pokemon[c.id]
               new == pokemon[c.id]
           IN /\ PreExists(c.id) /\ Exists(c.id)
              /\ new.name = (IF c.name # None THEN c.name[1] ELSE old.name)
              /\ new.height = (IF c.height # None THEN c.height ELSE old.height)
              /\ ~ReplacesTypes(c) => AssignmentsAsBefore(c.id)
              /\ OthersAsBefore(c.id)
C16_Witness ==
    \E p \in Procs :
        /\ Done(p, "update") /\ result[p] = "ok"
        /\ call[p].name # None /\ call[p].height = None
        /\ ~ReplacesTypes(call[p])
        /\ pre.pokemon[call[p].id].name # call[p].name[1]
        /\ pre.pokemon[call[p].id].height # None
        /\ pokemon[call[p].id].height = pre.pokemon[call[p].id].height
        /\ pokemon[call[p].id].name = call[p].name[1]

\* C17: update with a name owned by a different entity fails with Conflict
\* and changes nothing; update with the entity's own current name does not
\* fail with Conflict; update of an id that does not exist fails with
\* NotFound; and with calls run one at a time no two entities share a name.
OwnName(c) == c.name # None /\ pre.pokemon[c.id].name = c.name[1]
C17_UpdateName ==
    /\ \A p \in Procs :
         Done(p, "update") =>
            /\ (PreExists(call[p].id) /\ NameOwnedByOther(call[p]))
                  => (result[p] = "Conflict" /\ TablesAsBefore)
            /\ (PreExists(call[p].id) /\ OwnName(call[p]))
                  => result[p] # "Conflict"
            /\ ~PreExists(call[p].id) => result[p] = "NotFound"
    /\ \A i, j \in Ids :
         (Exists(i) /\ Exists(j) /\ pokemon[i].name = pokemon[j].name) => i = j
C17_Witness ==
    \E p \in Procs :
        /\ Done(p, "update") /\ PreExists(call[p].id)
        /\ NameOwnedByOther(call[p])
        /\ result[p] = "Conflict"

C20_RemoveOfTwo ==
    \A p \in Procs :
        ( /\ Done(p, "removeType") /\ PreExists(call[p].pokemonId)
          /\ PreCount(call[p].pokemonId) = 2 )
        => LET id == call[p].pokemonId
               t == call[p].typeId
           IN IF PreHas(id, t)
              THEN /\ result[p] = "ok"
                   /\ pokemon = pre.pokemon
                   /\ CopiesIn(<<id, t>>, pokemonType) = 0
                   /\ \A pr \in BagToSet(pre.pokemonType) \cup BagToSet(pokemonType) :
                        pr # <<id, t>> =>
                            CopiesIn(pr, pokemonType) = CopiesIn(pr, pre.pokemonType)
                   /\ CountTypes(id) = 1
              ELSE /\ result[p] = "RecordNotFound"
                   /\ TablesAsBefore
                   /\ CountTypes(id) = 2
C20_Witness ==
    \E p \in Procs :
        /\ Done(p, "removeType") /\ PreExists(call[p].pokemonId)
        /\ PreCount(call[p].pokemonId) = 2
        /\ ~PreHas(call[p].pokemonId, call[p].typeId)
        /\ TypeExists(call[p].typeId)
        /\ result[p] = "RecordNotFound"

============================================================================
